---- MODULE Spec2Model ----
(***************************************************************************)
(* DisconnectionHandler (static/js/disconnection_handler.js): the grace-   *)
(* period countdowns, the vote-kick ballot and the presence badges of the  *)
(* Bingo client.  One handler instance, one document, one socket.          *)
(*                                                                         *)
(* All work runs on the browser's event loop, so every handler, every      *)
(* interval callback and every method call is one atomic step.             *)
(*                                                                         *)
(* Not tracked: the text of notifications (showNotification is an external *)
(* function) and of the ballot message, display names, and the fields an   *)
(* event carries that the handler only passes to a notification            *)
(* (member_name, message, is_reconnection) or never reads again            *)
(* (vote_updated.target_member_id).                                        *)
(*                                                                         *)
(* The clock is read at whole periods of the interval timer; deadlines     *)
(* fall on half periods, so that the rounding of the remaining time shows. *)
(*                                                                         *)
(* Spec takes every event, call and tick in any order over a short clock.  *)
(* CountdownSpec lets countdowns of several seconds run to their end, and  *)
(* FairCountdownSpec adds that the clock and the due callbacks keep        *)
(* running.  BallotSpec has votes on different players follow each other.  *)
(***************************************************************************)
EXTENDS Integers, FiniteSets, Sequences, TLC

\* ------------------------------------------------------------------ bounds
\* member identifiers are 1..NumMembers
NumMembers == 2
\* the clock runs from 0 to MaxSeconds seconds
MaxSeconds == 1
\* grace_period of vote_kick_completed ranges over 0..MaxGrace (0: not supplied)
MaxGrace == 1
\* vote counts of vote_updated range over 0..MaxVotes
MaxVotes == 1
\* where countdowns run to their end, a deadline is up to MaxTicks seconds away
MaxTicks == 3
\* where votes on several players follow each other, counts range over 0..MaxTally
MaxTally == 3

\* ------------------------------------------------------- program constants
\* the second constructor argument: the local participant
currentMemberId == 1
\* setInterval(updateCountdown, 1000)
INTERVAL_MS == 1000
\* "if (remaining <= 5)": the indicator turns red
URGENT_SECONDS == 5

Members == 1..NumMembers
MaxTime == MaxSeconds * 1000
\* the clock is read once per period of the interval timer
ClockStep == INTERVAL_MS
\* the deadlines a server may name: every half second of the clock's range,
\* before or after the moment its event is handled
Deadlines == {t \in 0..MaxTime : t % (INTERVAL_MS \div 2) = 0}

VARIABLES
    now,                 \* Date.now(), in milliseconds
    disconnectedPlayers, \* this.disconnectedPlayers: member id -> {timer, deadline, element}
    intervals,           \* the repeating timers scheduled with setInterval
    body,                \* the countdown indicator elements attached to document.body
    cards,               \* the player cards of the document: member id -> card
    activeVoteKick,      \* this.activeVoteKick: <<>> (null) or <<[targetId, hasVoted]>>
    modal,               \* the #vote-kick-modal element and its children
    outbox,              \* the messages given to socket.send since the session was created
    lastCall             \* the last call the event loop ran: what it was given and did

vars == <<now, disconnectedPlayers, intervals, body, cards, activeVoteKick,
          modal, outbox, lastCall>>

\* --------------------------------------------------------------- helpers
Max(a, b) == IF a >= b THEN a ELSE b

\* Math.ceil(a / b) for b > 0
Ceil(a, b) == -((-a) \div b)

\* Date.prototype.toISOString: a timestamp written with its seconds and its
\* three millisecond digits
ToISOString(t) == [sec |-> t \div 1000, ms |-> t % 1000]

\* new Date(iso).getTime()
GetTime(iso) == iso.sec * 1000 + iso.ms

\* the handle setInterval returns, the identity of a created element: a value
\* no live timer (or element) carries, named after the member it is made for;
\* the handle of a cleared timer, which nothing refers to any more, is free
FreshId(memberId, used) ==
    [of |-> memberId,
     n |-> CHOOSE i \in 1..(Cardinality(used) + 1) :
              [of |-> memberId, n |-> i] \notin used]

\* Map.prototype.set and Map.prototype.delete
MapSet(map, k, v) == [x \in DOMAIN map \cup {k} |-> IF x = k THEN v ELSE map[x]]
MapDelete(map, k) == [x \in DOMAIN map \ {k} |-> map[x]]
EmptyMap == [x \in {} |-> 0]

\* the handler and the document as one value, threaded through the helpers;
\* threw: a TypeError left the running call; created, cleared: the members the
\* running call created a countdown for, and tore the entry down of; replaced:
\* the session the running call overwrote with a new one
Cur ==
    [disconnectedPlayers |-> disconnectedPlayers, intervals |-> intervals,
     body |-> body, cards |-> cards, activeVoteKick |-> activeVoteKick,
     modal |-> modal, outbox |-> outbox, threw |-> FALSE, created |-> {},
     cleared |-> {}, replaced |-> <<>>]

\* ------------------------------------------------------ countdown tracker
\* clearDisconnectionCountdown without clearInterval
clearWithoutClearInterval(s, memberId) ==
    IF memberId \notin DOMAIN s.disconnectedPlayers
    THEN s
    ELSE LET data == s.disconnectedPlayers[memberId]
         IN  [s EXCEPT !.body = {e \in @ : e.id # data.element},
                       !.disconnectedPlayers = MapDelete(@, memberId),
                       !.cleared = @ \cup {memberId}]

\* clearDisconnectionCountdown emptying the map (Map.clear for Map.delete)
clearEmptyingMap(s, memberId) ==
    IF memberId \notin DOMAIN s.disconnectedPlayers
    THEN s
    ELSE LET data == s.disconnectedPlayers[memberId]
         IN  [s EXCEPT !.intervals = {t \in @ : t.id # data.timer},
                       !.body = {e \in @ : e.id # data.element},
                       !.disconnectedPlayers = EmptyMap,
                       !.cleared = @ \cup {memberId}]

\* clearDisconnectionCountdown(memberId): clearInterval, element.remove()
\* when the element is attached, Map.delete; nothing without an entry
clearDisconnectionCountdown(s, memberId) ==
    IF memberId \notin DOMAIN s.disconnectedPlayers
    THEN s
    ELSE LET data == s.disconnectedPlayers[memberId]
         IN  [s EXCEPT !.intervals = {t \in @ : t.id # data.timer},
                       !.body = {e \in @ : e.id # data.element},
                       !.disconnectedPlayers = MapDelete(@, memberId),
                       !.cleared = @ \cup {memberId}]

\* updateCountdown without its last statement: zero is shown and nothing cleared
updateCountdownWithoutClear(s, memberId, deadlineTime, el, t) ==
    LET remaining == Max(0, Ceil(deadlineTime - t, 1000))
    IN  [s EXCEPT !.body =
            {IF e.id = el
             THEN [e EXCEPT !.time = remaining,
                            !.urgent = @ \/ remaining <= URGENT_SECONDS]
             ELSE e : e \in @}]

\* updateCountdown rounding the remaining time down (Math.floor)
updateCountdownRoundingDown(s, memberId, deadlineTime, el, t) ==
    LET remaining == Max(0, (deadlineTime - t) \div 1000)
        shown == [s EXCEPT !.body =
                    {IF e.id = el
                     THEN [e EXCEPT !.time = remaining,
                                    !.urgent = @ \/ remaining <= URGENT_SECONDS]
                     ELSE e : e \in @}]
    IN  IF remaining <= 0
        THEN clearDisconnectionCountdown(shown, memberId)
        ELSE shown

\* the closure updateCountdown of one countdown, run at time t: it writes the
\* remaining seconds into its element, turns it red at URGENT_SECONDS and
\* clears the member's entry at zero
updateCountdown(s, memberId, deadlineTime, el, t) ==
    LET remaining == Max(0, Ceil(deadlineTime - t, 1000))
        shown == [s EXCEPT !.body =
                    {IF e.id = el
                     THEN [e EXCEPT !.time = remaining,
                                    !.urgent = @ \/ remaining <= URGENT_SECONDS]
                     ELSE e : e \in @}]
    IN  IF remaining <= 0
        THEN clearDisconnectionCountdown(shown, memberId)
        ELSE shown

\* the timer handles and the elements alive in s
TimerIds(s) ==
    {x.id : x \in s.intervals}
        \cup {s.disconnectedPlayers[m].timer : m \in DOMAIN s.disconnectedPlayers}
ElementIds(s) ==
    {e.id : e \in s.body} \cup {x.el : x \in s.intervals}
        \cup {s.disconnectedPlayers[m].element : m \in DOMAIN s.disconnectedPlayers}

\* startDisconnectionCountdown after its first statement: append a new
\* indicator, run updateCountdown once, schedule it every INTERVAL_MS and
\* store the entry
createCountdown(s, memberId, deadline, gracePeriod, t) ==
    LET deadlineTime == GetTime(deadline)
        el == FreshId(memberId, ElementIds(s))
        appended == [s EXCEPT !.body = @ \cup
                        {[id |-> el, memberId |-> memberId,
                          time |-> gracePeriod, urgent |-> FALSE]}]
        updated == updateCountdown(appended, memberId, deadlineTime, el, t)
        timer == FreshId(memberId, TimerIds(updated))
    IN  [updated EXCEPT
            !.intervals = @ \cup
                {[id |-> timer, memberId |-> memberId,
                  deadlineTime |-> deadlineTime, el |-> el,
                  nextFire |-> t + INTERVAL_MS]},
            !.disconnectedPlayers = MapSet(@, memberId,
                [timer |-> timer, deadline |-> deadlineTime, element |-> el]),
            !.created = @ \cup {memberId}]

\* startDisconnectionCountdown without its first statement: the member's
\* earlier entry is overwritten, not cleared
startWithoutClear(s, memberId, deadline, gracePeriod, t) ==
    createCountdown(s, memberId, deadline, gracePeriod, t)

\* startDisconnectionCountdown(memberId, memberName, deadline, gracePeriod)
\* at time t: clear the member's entry, then create the new countdown
startDisconnectionCountdown(s, memberId, deadline, gracePeriod, t) ==
    createCountdown(clearDisconnectionCountdown(s, memberId),
                    memberId, deadline, gracePeriod, t)

\* --------------------------------------------------------- presence renderer
StatusClasses == {"opacity-50", "border-red-400", "border-purple-400", "border-2"}

\* Element.remove() of the first badge of a kind, when there is one
RemoveOne(n) == IF n > 0 THEN n - 1 ELSE 0

\* updatePlayerCardStatus removing the .bot-badge along with the .status-badge
updatePlayerCardStatusRemovingBadges(s, memberId, status) ==
    IF memberId \notin DOMAIN s.cards
    THEN s
    ELSE LET card == s.cards[memberId]
             reset == [card EXCEPT !.classes = @ \ StatusClasses,
                                   !.statusBadges = RemoveOne(@),
                                   !.botBadges = RemoveOne(@)]
         IN  [s EXCEPT !.cards[memberId] =
                CASE status = "disconnected" ->
                        [reset EXCEPT
                            !.classes = @ \cup {"opacity-50", "border-2", "border-red-400"},
                            !.statusBadges = IF card.nameContainer THEN @ + 1 ELSE @]
                  [] status = "bot" ->
                        [reset EXCEPT !.classes = @ \cup {"border-2", "border-purple-400"}]
                  [] OTHER -> reset]

\* updatePlayerCardStatus without "if (!playerCard) return": classList of null
updatePlayerCardStatusWithoutCardCheck(s, memberId, status) ==
    IF memberId \notin DOMAIN s.cards
    THEN [s EXCEPT !.threw = TRUE]
    ELSE LET card == s.cards[memberId]
             reset == [card EXCEPT !.classes = @ \ StatusClasses,
                                   !.statusBadges = RemoveOne(@)]
         IN  [s EXCEPT !.cards[memberId] =
                CASE status = "disconnected" ->
                        [reset EXCEPT
                            !.classes = @ \cup {"opacity-50", "border-2", "border-red-400"},
                            !.statusBadges = IF card.nameContainer THEN @ + 1 ELSE @]
                  [] status = "bot" ->
                        [reset EXCEPT !.classes = @ \cup {"border-2", "border-purple-400"}]
                  [] OTHER -> reset]

\* updatePlayerCardStatus without the removal of the existing .status-badge
updatePlayerCardStatusKeepingBadge(s, memberId, status) ==
    IF memberId \notin DOMAIN s.cards
    THEN s
    ELSE LET card == s.cards[memberId]
             reset == [card EXCEPT !.classes = @ \ StatusClasses]
         IN  [s EXCEPT !.cards[memberId] =
                CASE status = "disconnected" ->
                        [reset EXCEPT
                            !.classes = @ \cup {"opacity-50", "border-2", "border-red-400"},
                            !.statusBadges = IF card.nameContainer THEN @ + 1 ELSE @]
                  [] status = "bot" ->
                        [reset EXCEPT !.classes = @ \cup {"border-2", "border-purple-400"}]
                  [] OTHER -> reset]

\* updatePlayerCardStatus(memberId, status): nothing without a card; else the
\* status classes and one .status-badge go, and the status adds its own
updatePlayerCardStatus(s, memberId, status) ==
    IF memberId \notin DOMAIN s.cards
    THEN s
    ELSE LET card == s.cards[memberId]
             reset == [card EXCEPT !.classes = @ \ StatusClasses,
                                   !.statusBadges = RemoveOne(@)]
         IN  [s EXCEPT !.cards[memberId] =
                CASE status = "disconnected" ->
                        [reset EXCEPT
                            !.classes = @ \cup {"opacity-50", "border-2", "border-red-400"},
                            !.statusBadges = IF card.nameContainer THEN @ + 1 ELSE @]
                  [] status = "bot" ->
                        [reset EXCEPT !.classes = @ \cup {"border-2", "border-purple-400"}]
                  [] OTHER -> reset]

\* updateBotBadge(memberId, isBot): nothing without a card; else one
\* .bot-badge goes and, for a bot, one is appended to the name container
updateBotBadge(s, memberId, isBot) ==
    IF memberId \notin DOMAIN s.cards
    THEN s
    ELSE LET card == s.cards[memberId]
             removed == RemoveOne(card.botBadges)
         IN  [s EXCEPT !.cards[memberId].botBadges =
                IF isBot /\ card.nameContainer THEN removed + 1 ELSE removed]

\* ------------------------------------------------------ vote-kick coordinator
RECURSIVE GCD(_, _)
GCD(a, b) == IF b = 0 THEN a ELSE GCD(b, a % b)

\* "total > 0 ? (votes.kick / total) * 100 : 0", as a fraction in lowest terms
KickPercent(kick, keep) ==
    LET total == kick + keep
        g == GCD(100 * kick, total)
    IN  IF total > 0
        THEN [num |-> (100 * kick) \div g, den |-> total \div g]
        ELSE [num |-> 0, den |-> 1]

\* document.getElementById of a child of the modal returns null once the modal
\* has left the document; the property access on null throws a TypeError
Throw(s) == [s EXCEPT !.threw = TRUE]

\* handlePlayerDisconnected(data) at time t
handlePlayerDisconnected(s, data, t) ==
    IF data.member_id = currentMemberId
    THEN s
    ELSE updatePlayerCardStatus(
            startDisconnectionCountdown(s, data.member_id, data.deadline,
                                        data.grace_period, t),
            data.member_id, "disconnected")

\* handlePlayerConnected without clearDisconnectionCountdown
connectedWithoutClear(s, data) ==
    updateBotBadge(
        updatePlayerCardStatus(s, data.member_id, "connected"),
        data.member_id, FALSE)

\* handlePlayerConnected(data)
handlePlayerConnected(s, data) ==
    updateBotBadge(
        updatePlayerCardStatus(
            clearDisconnectionCountdown(s, data.member_id),
            data.member_id, "connected"),
        data.member_id, FALSE)

\* handlePlayerBotControlled(data)
handlePlayerBotControlled(s, data) ==
    updateBotBadge(
        updatePlayerCardStatus(
            clearDisconnectionCountdown(s, data.member_id),
            data.member_id, "bot"),
        data.member_id, TRUE)

\* handlePlayerReconnectedFromBot(data)
handlePlayerReconnectedFromBot(s, data) ==
    updatePlayerCardStatus(
        updateBotBadge(s, data.member_id, FALSE),
        data.member_id, "connected")

\* handleVoteKickStarted without the check for the local participant
startedWithoutSelfCheck(s, data) ==
    LET assigned ==
           [s EXCEPT !.activeVoteKick =
                         <<[targetId |-> data.target_member_id, hasVoted |-> FALSE]>>,
                     !.outbox = <<>>,
                     !.replaced = s.activeVoteKick]
    IN  IF ~s.modal.inDoc
        THEN Throw(assigned)
        ELSE clearDisconnectionCountdown(
               [assigned EXCEPT
                   !.modal = [@ EXCEPT !.buttonsHidden = FALSE,
                                       !.waitingHidden = TRUE,
                                       !.kickVotes = 0,
                                       !.keepVotes = 0,
                                       !.votesCast = 0,
                                       !.totalVoters = data.total_voters,
                                       !.barKick = [num |-> 0, den |-> 1],
                                       !.hidden = FALSE]],
               data.target_member_id)

\* handleVoteKickStarted leaving a session that is active in place
startedKeepingSession(s, data) ==
    IF data.target_member_id = currentMemberId \/ s.activeVoteKick # <<>>
    THEN s
    ELSE startedWithoutSelfCheck(s, data)

\* handleVoteKickStarted(data): the session is assigned before the modal's
\* children are looked up
handleVoteKickStarted(s, data) ==
    IF data.target_member_id = currentMemberId
    THEN s
    ELSE LET assigned ==
                [s EXCEPT !.activeVoteKick =
                              <<[targetId |-> data.target_member_id, hasVoted |-> FALSE]>>,
                          !.outbox = <<>>,
                          !.replaced = s.activeVoteKick]
         IN  IF ~s.modal.inDoc
             THEN Throw(assigned)
             ELSE clearDisconnectionCountdown(
                    [assigned EXCEPT
                        !.modal = [@ EXCEPT !.buttonsHidden = FALSE,
                                            !.waitingHidden = TRUE,
                                            !.kickVotes = 0,
                                            !.keepVotes = 0,
                                            !.votesCast = 0,
                                            !.totalVoters = data.total_voters,
                                            !.barKick = [num |-> 0, den |-> 1],
                                            !.hidden = FALSE]],
                    data.target_member_id)

\* handleVoteUpdated(data)
handleVoteUpdated(s, data) ==
    IF ~s.modal.inDoc
    THEN Throw(s)
    ELSE [s EXCEPT !.modal = [@ EXCEPT !.kickVotes = data.votes.kick,
                                       !.keepVotes = data.votes.keep,
                                       !.votesCast = data.total_voted,
                                       !.totalVoters = data.total_voters,
                                       !.barKick = KickPercent(data.votes.kick,
                                                               data.votes.keep)]]

\* handleVoteKickCompleted closing the ballot only for the session's target,
\* as handleVoteKickCancelled does
completedWithTargetCheck(s, data, t) ==
    LET closed ==
           IF /\ s.activeVoteKick # <<>>
              /\ s.activeVoteKick[1].targetId = data.target_member_id
           THEN [s EXCEPT !.modal.hidden = TRUE, !.activeVoteKick = <<>>]
           ELSE s
    IN  IF data.result = "kick"
        THEN closed
        ELSE IF data.grace_period # 0
             THEN startDisconnectionCountdown(closed, data.target_member_id,
                        ToISOString(t + data.grace_period * 1000),
                        data.grace_period, t)
             ELSE closed

\* handleVoteKickCompleted taking grace_period for milliseconds
completedWithoutSeconds(s, data, t) ==
    LET closed == [s EXCEPT !.modal.hidden = TRUE, !.activeVoteKick = <<>>]
    IN  IF data.result = "kick"
        THEN closed
        ELSE IF data.grace_period # 0
             THEN startDisconnectionCountdown(closed, data.target_member_id,
                        ToISOString(t + data.grace_period),
                        data.grace_period, t)
             ELSE closed

\* handleVoteKickCompleted restarting the countdown whatever the result
completedIgnoringResult(s, data, t) ==
    LET closed == [s EXCEPT !.modal.hidden = TRUE, !.activeVoteKick = <<>>]
    IN  IF data.grace_period # 0
        THEN startDisconnectionCountdown(closed, data.target_member_id,
                   ToISOString(t + data.grace_period * 1000),
                   data.grace_period, t)
        ELSE closed

\* handleVoteKickCompleted(data) at time t; this.voteModal stays a reference
\* to the element when it is detached
handleVoteKickCompleted(s, data, t) ==
    LET closed == [s EXCEPT !.modal.hidden = TRUE, !.activeVoteKick = <<>>]
    IN  IF data.result = "kick"
        THEN closed
        ELSE IF data.grace_period # 0
             THEN startDisconnectionCountdown(closed, data.target_member_id,
                        ToISOString(t + data.grace_period * 1000),
                        data.grace_period, t)
             ELSE closed

\* handleVoteKickCancelled without the comparison of the targets
cancelledWithoutTargetCheck(s, data) ==
    IF s.activeVoteKick # <<>>
    THEN [s EXCEPT !.modal.hidden = TRUE, !.activeVoteKick = <<>>]
    ELSE s

\* handleVoteKickCancelled(data)
handleVoteKickCancelled(s, data) ==
    IF s.activeVoteKick # <<>> /\ s.activeVoteKick[1].targetId = data.member_id
    THEN [s EXCEPT !.modal.hidden = TRUE, !.activeVoteKick = <<>>]
    ELSE s

\* castVote naming the local participant in its message
castVoteNamingSelf(s, vote) ==
    IF s.activeVoteKick = <<>> \/ s.activeVoteKick[1].hasVoted
    THEN s
    ELSE LET sent ==
                [s EXCEPT !.outbox = Append(@,
                              [type |-> "cast_vote",
                               target_member_id |-> currentMemberId,
                               vote |-> vote]),
                          !.activeVoteKick[1].hasVoted = TRUE]
         IN  IF ~s.modal.inDoc
             THEN Throw(sent)
             ELSE [sent EXCEPT !.modal.buttonsHidden = TRUE,
                               !.modal.waitingHidden = FALSE]

\* castVote without the check of hasVoted
castVoteWithoutVotedCheck(s, vote) ==
    IF s.activeVoteKick = <<>>
    THEN s
    ELSE LET sent ==
                [s EXCEPT !.outbox = Append(@,
                              [type |-> "cast_vote",
                               target_member_id |-> s.activeVoteKick[1].targetId,
                               vote |-> vote]),
                          !.activeVoteKick[1].hasVoted = TRUE]
         IN  IF ~s.modal.inDoc
             THEN Throw(sent)
             ELSE [sent EXCEPT !.modal.buttonsHidden = TRUE,
                               !.modal.waitingHidden = FALSE]

\* castVote(vote): the message is sent and hasVoted set before the buttons
\* are looked up
castVote(s, vote) ==
    IF s.activeVoteKick = <<>> \/ s.activeVoteKick[1].hasVoted
    THEN s
    ELSE LET sent ==
                [s EXCEPT !.outbox = Append(@,
                              [type |-> "cast_vote",
                               target_member_id |-> s.activeVoteKick[1].targetId,
                               vote |-> vote]),
                          !.activeVoteKick[1].hasVoted = TRUE]
         IN  IF ~s.modal.inDoc
             THEN Throw(sent)
             ELSE [sent EXCEPT !.modal.buttonsHidden = TRUE,
                               !.modal.waitingHidden = FALSE]

\* destroy without clearInterval in its loop
destroyWithoutClearInterval(s) ==
    LET entries == {s.disconnectedPlayers[m] : m \in DOMAIN s.disconnectedPlayers}
    IN  [s EXCEPT !.body = {x \in @ : x.id \notin {e.element : e \in entries}},
                  !.disconnectedPlayers = EmptyMap,
                  !.cleared = @ \cup DOMAIN s.disconnectedPlayers,
                  !.modal.inDoc = FALSE]

\* destroy(): every entry's timer and element, the map, the modal
destroy(s) ==
    LET entries == {s.disconnectedPlayers[m] : m \in DOMAIN s.disconnectedPlayers}
    IN  [s EXCEPT !.intervals = {x \in @ : x.id \notin {e.timer : e \in entries}},
                  !.body = {x \in @ : x.id \notin {e.element : e \in entries}},
                  !.disconnectedPlayers = EmptyMap,
                  !.cleared = @ \cup DOMAIN s.disconnectedPlayers,
                  !.modal.inDoc = FALSE]

\* ------------------------------------------------------------- the document
\* a player card as the page renders it: no status class, no badge
PlainCard(nameContainer) ==
    [classes |-> {}, statusBadges |-> 0, botBadges |-> 0,
     nameContainer |-> nameContainer]

\* the modal as initVoteModal inserts it: hidden, buttons shown, zero tallies
FreshModal ==
    [inDoc |-> TRUE, hidden |-> TRUE, buttonsHidden |-> FALSE,
     waitingHidden |-> TRUE, kickVotes |-> 0, keepVotes |-> 0,
     votesCast |-> 0, totalVoters |-> 0, barKick |-> [num |-> 0, den |-> 1]]

NoData == [none |-> TRUE]

\* constructor(socket, currentMemberId) on a page that holds a player card, with
\* its name container, for any of the other members
Init ==
    /\ now = 0
    /\ disconnectedPlayers = EmptyMap
    /\ intervals = {}
    /\ body = {}
    /\ \E withCard \in SUBSET (Members \ {currentMemberId}) :
          cards = [m \in withCard |-> PlainCard(TRUE)]
    /\ activeVoteKick = <<>>
    /\ modal = FreshModal
    /\ outbox = <<>>
    /\ lastCall = [op |-> "constructor", data |-> NoData, threw |-> FALSE,
                   created |-> {}, cleared |-> {}, replaced |-> <<>>]

\* one turn of the event loop: the call op(data) took the handler and the
\* document to s
Step(op, data, s) ==
    /\ disconnectedPlayers' = s.disconnectedPlayers
    /\ intervals' = s.intervals
    /\ body' = s.body
    /\ cards' = s.cards
    /\ activeVoteKick' = s.activeVoteKick
    /\ modal' = s.modal
    /\ outbox' = s.outbox
    /\ lastCall' = [op |-> op, data |-> data, threw |-> s.threw,
                    created |-> s.created, cleared |-> s.cleared,
                    replaced |-> s.replaced]
    /\ now' = now

\* ------------------------------------------------------------ inbound events
\* grace_period reaches only the notification and the indicator's first text,
\* which updateCountdown overwrites before the call returns
PlayerDisconnected ==
    \E m \in Members, d \in Deadlines, g \in {MaxGrace} :
        LET data == [member_id |-> m, deadline |-> ToISOString(d), grace_period |-> g]
        IN  Step("player_disconnected", data, handlePlayerDisconnected(Cur, data, now))

PlayerConnected ==
    \E m \in Members :
        LET data == [member_id |-> m]
        IN  Step("player_connected", data, handlePlayerConnected(Cur, data))

PlayerBotControlled ==
    \E m \in Members :
        LET data == [member_id |-> m]
        IN  Step("player_bot_controlled", data, handlePlayerBotControlled(Cur, data))

PlayerReconnectedFromBot ==
    \E m \in Members :
        LET data == [member_id |-> m]
        IN  Step("player_reconnected_from_bot", data,
                 handlePlayerReconnectedFromBot(Cur, data))

VoteKickStarted ==
    \E m \in Members, n \in {NumMembers - 1} :
        LET data == [target_member_id |-> m, total_voters |-> n]
        IN  Step("vote_kick_started", data, handleVoteKickStarted(Cur, data))

VoteUpdated ==
    \E k \in 0..MaxVotes, p \in 0..MaxVotes :
        LET data == [votes |-> [kick |-> k, keep |-> p],
                     total_voters |-> NumMembers - 1, total_voted |-> k + p]
        IN  Step("vote_updated", data, handleVoteUpdated(Cur, data))

VoteKickCompleted ==
    \E r \in {"kick", "keep"}, m \in Members, g \in 0..MaxGrace :
        LET data == [result |-> r, target_member_id |-> m, grace_period |-> g]
        IN  Step("vote_kick_completed", data, handleVoteKickCompleted(Cur, data, now))

VoteKickCancelled ==
    \E m \in Members :
        LET data == [member_id |-> m]
        IN  Step("vote_kick_cancelled", data, handleVoteKickCancelled(Cur, data))

\* --------------------------------------------------------------- local calls
\* a click on #btn-vote-kick or #btn-vote-keep, or a call of the method
CastVote ==
    \E v \in {"kick", "keep"} :
        Step("castVote", [vote |-> v], castVote(Cur, v))

Destroy == Step("destroy", NoData, destroy(Cur))

ClearCountdown ==
    \E m \in Members :
        Step("clearDisconnectionCountdown", [member_id |-> m],
             clearDisconnectionCountdown(Cur, m))

\* ------------------------------------------------------------------ the clock
\* a scheduled interval is due: its callback runs and the timer, unless the
\* callback cleared it, is due again INTERVAL_MS later
IntervalFires ==
    \E x \in intervals :
        /\ x.nextFire <= now
        /\ LET ran == updateCountdown(Cur, x.memberId, x.deadlineTime, x.el, now)
           IN  Step("interval", [member_id |-> x.memberId, timer |-> x.id],
                    [ran EXCEPT !.intervals =
                        {IF y.id = x.id THEN [y EXCEPT !.nextFire = @ + INTERVAL_MS]
                                        ELSE y : y \in @}])

\* time passes when no interval is due
AdvanceTime ==
    /\ now + ClockStep <= MaxTime
    /\ \A x \in intervals : x.nextFire > now
    /\ now' = now + ClockStep
    /\ lastCall' = [op |-> "clock", data |-> NoData, threw |-> FALSE,
                    created |-> {}, cleared |-> {}, replaced |-> <<>>]
    /\ UNCHANGED <<disconnectedPlayers, intervals, body, cards, activeVoteKick,
                   modal, outbox>>

Next ==
    \/ PlayerDisconnected
    \/ PlayerConnected
    \/ PlayerBotControlled
    \/ PlayerReconnectedFromBot
    \/ VoteKickStarted
    \/ VoteUpdated
    \/ VoteKickCompleted
    \/ VoteKickCancelled
    \/ CastVote
    \/ Destroy
    \/ ClearCountdown
    \/ IntervalFires
    \/ AdvanceTime

Spec == Init /\ [][Next]_vars

\* ------------------------------------------------- countdowns run to their end
\* The events that start a countdown arrive during the first MaxSeconds seconds
\* and name a deadline up to MaxTicks seconds away; the clock then runs on until
\* every countdown has had the tick that follows its deadline.
CountdownEnd == MaxTime + (MaxTicks + 1) * INTERVAL_MS

\* player_disconnected with a deadline from one second ago to MaxTicks seconds
\* ahead, every half second
CountdownStarts ==
    /\ now <= MaxTime
    /\ \E m \in Members, k \in -2..(2 * MaxTicks) :
          LET d == now + k * (INTERVAL_MS \div 2)
              data == [member_id |-> m, deadline |-> ToISOString(d),
                       grace_period |-> MaxTicks]
          IN  /\ d >= 0
              /\ Step("player_disconnected", data,
                      handlePlayerDisconnected(Cur, data, now))

\* vote_kick_completed with result keep and a grace_period of 1..MaxTicks
CountdownKept ==
    /\ now <= MaxTime
    /\ \E m \in Members, g \in 1..MaxTicks :
          LET data == [result |-> "keep", target_member_id |-> m, grace_period |-> g]
          IN  Step("vote_kick_completed", data,
                   handleVoteKickCompleted(Cur, data, now))

\* time passes when no interval is due
TimePasses ==
    /\ now + ClockStep <= CountdownEnd
    /\ \A x \in intervals : x.nextFire > now
    /\ now' = now + ClockStep
    /\ lastCall' = [op |-> "clock", data |-> NoData, threw |-> FALSE,
                    created |-> {}, cleared |-> {}, replaced |-> <<>>]
    /\ UNCHANGED <<disconnectedPlayers, intervals, body, cards, activeVoteKick,
                   modal, outbox>>

CountdownNext ==
    \/ CountdownStarts
    \/ CountdownKept
    \/ PlayerConnected
    \/ IntervalFires
    \/ TimePasses

CountdownSpec == Init /\ [][CountdownNext]_vars

\* the browser keeps its clock running and runs the callback of every interval
\* that is due
FairCountdownSpec ==
    CountdownSpec /\ WF_vars(IntervalFires) /\ WF_vars(TimePasses)

\* ------------------------------------------------------ votes on several players
\* The ballot with one member more, so that sessions on different players
\* follow each other, and with tallies up to MaxTally; no countdown runs.
BallotMembers == 1..(NumMembers + 1)

BallotStarted ==
    \E m \in BallotMembers :
        LET data == [target_member_id |-> m, total_voters |-> NumMembers]
        IN  Step("vote_kick_started", data, handleVoteKickStarted(Cur, data))

BallotUpdated ==
    \E k \in 0..MaxTally, p \in 0..MaxTally :
        LET data == [votes |-> [kick |-> k, keep |-> p],
                     total_voters |-> NumMembers, total_voted |-> k + p]
        IN  Step("vote_updated", data, handleVoteUpdated(Cur, data))

\* vote_kick_completed without a grace_period
BallotCompleted ==
    \E r \in {"kick", "keep"}, m \in BallotMembers :
        LET data == [result |-> r, target_member_id |-> m, grace_period |-> 0]
        IN  Step("vote_kick_completed", data, handleVoteKickCompleted(Cur, data, now))

BallotCancelled ==
    \E m \in BallotMembers :
        LET data == [member_id |-> m]
        IN  Step("vote_kick_cancelled", data, handleVoteKickCancelled(Cur, data))

BallotNext ==
    \/ BallotStarted
    \/ BallotUpdated
    \/ BallotCompleted
    \/ BallotCancelled
    \/ CastVote
    \/ Destroy

BallotSpec == Init /\ [][BallotNext]_vars

\* ================================================================== claims
\* the timers scheduled for member p among iv, the indicators of p among els
TimersOf(iv, p) == {x \in iv : x.memberId = p}
IndicatorsOf(els, p) == {e \in els : e.memberId = p}

\* everything but the clock and the record of the last call
HandlerVars ==
    <<disconnectedPlayers, intervals, body, cards, activeVoteKick, modal, outbox>>

\* C1: in every reachable state each member has at most one scheduled timer
\* and at most one indicator in the document (and, the entries being a map, at
\* most one entry), and every scheduled timer and every indicator in the
\* document is the one the member's current entry holds.
C1_OneCountdownPerPlayer ==
    /\ \A p \in Members :
          /\ Cardinality(TimersOf(intervals, p)) <= 1
          /\ Cardinality(IndicatorsOf(body, p)) <= 1
    /\ \A x \in intervals :
          /\ x.memberId \in DOMAIN disconnectedPlayers
          /\ disconnectedPlayers[x.memberId].timer = x.id
    /\ \A e \in body :
          /\ e.memberId \in DOMAIN disconnectedPlayers
          /\ disconnectedPlayers[e.memberId].element = e.id

\* a countdown was just started for a member while every member has one running
C1_Witness ==
    /\ lastCall.op = "player_disconnected"
    /\ lastCall.created # {}
    /\ now > 0
    /\ DOMAIN disconnectedPlayers = Members
    /\ Cardinality(intervals) = NumMembers
    /\ Cardinality(body) = NumMembers

\* C2: a session takes at most one cast_vote message: castVote with a session
\* that has not voted sends one message and sets hasVoted; castVote with no
\* session, or with one that has voted, sends nothing and changes nothing.
C2_OneVotePerSession ==
    [][/\ Len(outbox') <= 1
       /\ lastCall'.op = "castVote" =>
            IF activeVoteKick = <<>> \/ activeVoteKick[1].hasVoted
            THEN UNCHANGED HandlerVars /\ ~lastCall'.threw
            ELSE /\ outbox' = Append(outbox,
                        [type |-> "cast_vote",
                         target_member_id |-> activeVoteKick[1].targetId,
                         vote |-> lastCall'.data.vote])
                 /\ Len(outbox') = 1
                 /\ activeVoteKick' =
                        <<[targetId |-> activeVoteKick[1].targetId, hasVoted |-> TRUE]>>
      ]_vars

\* a second castVote, for the other option, was dropped: the session holds the
\* first vote only
C2_Witness ==
    /\ lastCall.op = "castVote"
    /\ activeVoteKick # <<>>
    /\ activeVoteKick[1].hasVoted
    /\ Len(outbox) = 1
    /\ outbox[1].vote # lastCall.data.vote

\* C3: vote_kick_started naming the local participant changes nothing: ballot,
\* session, tallies, countdowns (and cards and sent messages) stay as they were.
C3_SelfTargetIgnored ==
    [][(/\ lastCall'.op = "vote_kick_started"
        /\ lastCall'.data.target_member_id = currentMemberId)
          => UNCHANGED HandlerVars /\ ~lastCall'.threw]_vars

\* the event was handled while a session that had voted was open and a
\* countdown was running
C3_Witness ==
    /\ lastCall.op = "vote_kick_started"
    /\ lastCall.data.target_member_id = currentMemberId
    /\ activeVoteKick # <<>>
    /\ activeVoteKick[1].hasVoted
    /\ ~modal.hidden
    /\ modal.kickVotes > 0
    /\ disconnectedPlayers # EmptyMap

\* C4: vote_kick_cancelled clears the session and hides the ballot when a
\* session is active and the event names its target; otherwise it leaves the
\* session and the ballot's visibility as they were.
C4_CancelOnlyMatching ==
    [][lastCall'.op = "vote_kick_cancelled" =>
          IF /\ activeVoteKick # <<>>
             /\ activeVoteKick[1].targetId = lastCall'.data.member_id
          THEN activeVoteKick' = <<>> /\ modal'.hidden
          ELSE UNCHANGED <<activeVoteKick, modal>>]_vars

\* a cancellation naming another member was handled and the session, with its
\* vote cast, is still open
C4_Witness ==
    /\ lastCall.op = "vote_kick_cancelled"
    /\ activeVoteKick # <<>>
    /\ activeVoteKick[1].targetId # lastCall.data.member_id
    /\ activeVoteKick[1].hasVoted
    /\ ~modal.hidden

\* the member an event of the vote's end names
Named(call) ==
    IF call.op = "vote_kick_completed"
    THEN call.data.target_member_id
    ELSE call.data.member_id

\* C5: a vote_kick_completed or vote_kick_cancelled event naming another member
\* than the active session's target leaves the session in place.
C5_ClearedOnlyByMatching ==
    [][(/\ lastCall'.op \in {"vote_kick_completed", "vote_kick_cancelled"}
        /\ activeVoteKick # <<>>
        /\ activeVoteKick[1].targetId # Named(lastCall'))
          => activeVoteKick' = activeVoteKick]_vars

\* C6: after vote_kick_completed, from any state, the ballot is hidden and no
\* session is active, and a castVote that follows sends nothing.
C6_CompletedLeavesIdle ==
    [][/\ lastCall'.op = "vote_kick_completed" =>
            /\ modal'.hidden
            /\ activeVoteKick' = <<>>
            /\ ~lastCall'.threw
       /\ (lastCall.op = "vote_kick_completed" /\ lastCall'.op = "castVote") =>
            UNCHANGED HandlerVars
      ]_vars

\* castVote was called right after a completion that found the ballot waiting
\* for the other votes, and nothing more was sent
C6_Witness ==
    /\ lastCall.op = "castVote"
    /\ activeVoteKick = <<>>
    /\ modal.hidden
    /\ modal.buttonsHidden
    /\ ~modal.waitingHidden
    /\ Len(outbox) = 1
    /\ outbox[1].vote # lastCall.data.vote

\* C7: after vote_kick_completed with result keep, target P and a non-zero
\* grace_period G, P has one entry, created by the event, with deadline
\* now + G seconds, one timer and one indicator, which shows G; the entry P had
\* before was torn down.
C7_KeepRestartsCountdown ==
    [][(/\ lastCall'.op = "vote_kick_completed"
        /\ lastCall'.data.result = "keep"
        /\ lastCall'.data.grace_period # 0)
          => LET P == lastCall'.data.target_member_id
                 G == lastCall'.data.grace_period
             IN  /\ P \in DOMAIN disconnectedPlayers'
                 /\ P \in lastCall'.created
                 /\ P \in DOMAIN disconnectedPlayers => P \in lastCall'.cleared
                 /\ disconnectedPlayers'[P].deadline = now + G * 1000
                 /\ {x.id : x \in TimersOf(intervals', P)}
                        = {disconnectedPlayers'[P].timer}
                 /\ Cardinality(TimersOf(intervals', P)) = 1
                 /\ Cardinality(IndicatorsOf(body', P)) = 1
                 /\ \A e \in IndicatorsOf(body', P) :
                        /\ e.id = disconnectedPlayers'[P].element
                        /\ e.time = G
      ]_vars

\* the event replaced a countdown that was running for its target, after the
\* clock had moved
C7_Witness ==
    /\ lastCall.op = "vote_kick_completed"
    /\ lastCall.data.result = "keep"
    /\ lastCall.data.grace_period # 0
    /\ lastCall.data.target_member_id \in lastCall.cleared
    /\ lastCall.data.target_member_id \in DOMAIN disconnectedPlayers
    /\ now > 0

\* C8: vote_kick_completed with result kick, or with result keep and no
\* grace_period, leaves the entries, the timers and the indicators as they were.
C8_KickStartsNoCountdown ==
    [][(/\ lastCall'.op = "vote_kick_completed"
        /\ \/ lastCall'.data.result = "kick"
           \/ lastCall'.data.grace_period = 0)
          => /\ UNCHANGED <<disconnectedPlayers, intervals, body>>
             /\ lastCall'.created = {}
      ]_vars

\* a kick that carried a grace_period was handled while a countdown was running
C8_Witness ==
    /\ lastCall.op = "vote_kick_completed"
    /\ lastCall.data.result = "kick"
    /\ lastCall.data.grace_period # 0
    /\ disconnectedPlayers # EmptyMap

\* C9: after vote_kick_completed naming P, whatever its result, the entry, the
\* timer and the indicator P had before the event are gone.
C9_EntryGoneAfterVote ==
    [][lastCall'.op = "vote_kick_completed" =>
          LET P == lastCall'.data.target_member_id
          IN  P \in DOMAIN disconnectedPlayers => P \in lastCall'.cleared]_vars

\* C10: clearDisconnectionCountdown(P) ends with no entry, no timer and no
\* indicator of P, does not throw, and changes nothing when P has no entry.
C10_ClearRemovesAll ==
    [][lastCall'.op = "clearDisconnectionCountdown" =>
          LET P == lastCall'.data.member_id
          IN  /\ P \notin DOMAIN disconnectedPlayers'
              /\ TimersOf(intervals', P) = {}
              /\ IndicatorsOf(body', P) = {}
              /\ ~lastCall'.threw
              /\ P \notin DOMAIN disconnectedPlayers => UNCHANGED HandlerVars
      ]_vars

\* the call tore down the entry of a member while another member's countdown
\* went on
C10_Witness ==
    /\ lastCall.op = "clearDisconnectionCountdown"
    /\ lastCall.data.member_id \in lastCall.cleared
    /\ lastCall.data.member_id \notin DOMAIN disconnectedPlayers
    /\ disconnectedPlayers # EmptyMap
    /\ intervals # {}

\* the whole seconds that cover d milliseconds: the least k with d <= 1000 k
WholeSeconds(d) ==
    CHOOSE k \in -(CountdownEnd \div 1000 + 1)..(CountdownEnd \div 1000 + 1) :
        1000 * (k - 1) < d /\ d <= 1000 * k

\* C11: with one tick per second, a countdown's indicator shows at its start
\* and after each tick max(0, ceil((deadline - now) / 1000)), which is N at the
\* start when the deadline is N whole seconds away; each tick shows the
\* earlier value less one, or 0 after 0, never more; and the tick that shows 0
\* removes the entry, the timer and the indicator.
C11_CountdownShown ==
    [][/\ \A P \in lastCall'.created :
            LET D == disconnectedPlayers'[P].deadline
            IN  /\ Cardinality(IndicatorsOf(body', P)) = 1
                /\ \A e \in IndicatorsOf(body', P) :
                      /\ e.time = Max(0, WholeSeconds(D - now))
                      /\ (D >= now /\ (D - now) % 1000 = 0)
                            => 1000 * e.time = D - now
       /\ lastCall'.op = "interval" =>
            LET P == lastCall'.data.member_id
                D == disconnectedPlayers[P].deadline
                shown == Max(0, WholeSeconds(D - now))
            IN  /\ P \in DOMAIN disconnectedPlayers
                /\ Cardinality(IndicatorsOf(body, P)) = 1
                /\ \A e \in IndicatorsOf(body, P) :
                      shown <= e.time /\ shown = Max(0, e.time - 1)
                /\ IF shown = 0
                   THEN /\ P \notin DOMAIN disconnectedPlayers'
                        /\ TimersOf(intervals', P) = {}
                        /\ IndicatorsOf(body', P) = {}
                   ELSE /\ P \in DOMAIN disconnectedPlayers'
                        /\ disconnectedPlayers'[P] = disconnectedPlayers[P]
                        /\ Cardinality(IndicatorsOf(body', P)) = 1
                        /\ \A e \in IndicatorsOf(body', P) : e.time = shown
      ]_vars

\* a countdown of MaxTicks seconds has ticked down to 1
C11_Witness ==
    /\ lastCall.op = "interval"
    /\ now >= MaxTime + (MaxTicks - 1) * INTERVAL_MS
    /\ lastCall.data.member_id \in DOMAIN disconnectedPlayers
    /\ \A e \in IndicatorsOf(body, lastCall.data.member_id) : e.time = 1
    /\ IndicatorsOf(body, lastCall.data.member_id) # {}

\* C12: while the clock runs and every due interval callback is run, each
\* countdown entry is eventually removed, whether or not an event arrives; the
\* tick that finds the deadline reached removes the entry and its timer, so
\* that the timer never fires again.
C12_EveryCountdownEnds ==
    /\ \A p \in Members :
          (p \in DOMAIN disconnectedPlayers) ~> (p \notin DOMAIN disconnectedPlayers)
    /\ [][lastCall'.op = "interval" =>
            LET P == lastCall'.data.member_id
            IN  (P \in DOMAIN disconnectedPlayers
                    /\ disconnectedPlayers[P].deadline <= now)
                  => /\ P \in lastCall'.cleared
                     /\ P \notin DOMAIN disconnectedPlayers'
                     /\ TimersOf(intervals', P) = {}
                     /\ \A x \in intervals' : x.id # lastCall'.data.timer
         ]_vars

\* the tick after its deadline removed a countdown of MaxTicks seconds while no
\* other was running
C12_Witness ==
    /\ lastCall.op = "interval"
    /\ lastCall.cleared = {lastCall.data.member_id}
    /\ now >= MaxTicks * INTERVAL_MS
    /\ disconnectedPlayers = EmptyMap
    /\ intervals = {}
    /\ body = {}

\* C13: destroy(), from any state, ends without an error and with no entry, no
\* scheduled timer, no indicator and the ballot out of the document; a destroy()
\* that follows a destroy() changes nothing.
C13_DestroyLeavesNothing ==
    [][lastCall'.op = "destroy" =>
          /\ disconnectedPlayers' = EmptyMap
          /\ intervals' = {}
          /\ body' = {}
          /\ ~modal'.inDoc
          /\ ~lastCall'.threw
          /\ lastCall.op = "destroy" => UNCHANGED HandlerVars
      ]_vars

\* destroy() tore down a countdown of every member while a session was open
C13_Witness ==
    /\ lastCall.op = "destroy"
    /\ lastCall.cleared = Members
    /\ activeVoteKick # <<>>
    /\ ~modal.hidden

\* C14: after every vote_updated event the ballot shows the event's kick, keep,
\* total_voted and total_voters, and its bar stands at 100 * kick / (kick + keep)
\* percent, at 0 percent when kick + keep = 0.
C14_TalliesShown ==
    lastCall.op = "vote_updated" =>
        LET kick == lastCall.data.votes.kick
            keep == lastCall.data.votes.keep
        IN  /\ modal.kickVotes = kick
            /\ modal.keepVotes = keep
            /\ modal.votesCast = lastCall.data.total_voted
            /\ modal.totalVoters = lastCall.data.total_voters
            /\ IF kick + keep > 0
               THEN modal.barKick.num * (kick + keep) = 100 * kick * modal.barKick.den
               ELSE modal.barKick.num = 0

\* C15: after a vote_kick_started event naming T, not the local participant,
\* the session is {T, hasVoted false}, the ballot is visible with its buttons
\* shown and its waiting indicator hidden, the kick, keep and votes-cast counts
\* and the bar are at zero, total-voters is the event's, and T has no entry.
C15_StartedShowsBallot ==
    (/\ lastCall.op = "vote_kick_started"
     /\ lastCall.data.target_member_id # currentMemberId)
      => LET T == lastCall.data.target_member_id
         IN  /\ activeVoteKick = <<[targetId |-> T, hasVoted |-> FALSE]>>
             /\ ~modal.hidden
             /\ ~modal.buttonsHidden
             /\ modal.waitingHidden
             /\ modal.kickVotes = 0
             /\ modal.keepVotes = 0
             /\ modal.votesCast = 0
             /\ modal.barKick.num = 0
             /\ modal.totalVoters = lastCall.data.total_voters
             /\ T \notin DOMAIN disconnectedPlayers
             /\ TimersOf(intervals, T) = {}
             /\ IndicatorsOf(body, T) = {}

\* C16: the only messages sent are cast_vote messages, sent by castVote, each
\* with the target of the session active when castVote was called and the
\* option castVote was given, kick or keep.
C16_CastVoteMessage ==
    [][/\ \A i \in 1..Len(outbox') : outbox'[i].type = "cast_vote"
       /\ (outbox' # outbox /\ outbox' # <<>>) =>
            /\ lastCall'.op = "castVote"
            /\ lastCall'.data.vote \in {"kick", "keep"}
            /\ activeVoteKick # <<>>
            /\ outbox' = Append(outbox,
                   [type |-> "cast_vote",
                    target_member_id |-> activeVoteKick[1].targetId,
                    vote |-> lastCall'.data.vote])
      ]_vars

\* a vote was sent on the last member, in a session whose counts had moved
C16_Witness ==
    /\ lastCall.op = "castVote"
    /\ Len(outbox) = 1
    /\ outbox[1].target_member_id = NumMembers + 1
    /\ outbox[1].vote = lastCall.data.vote
    /\ activeVoteKick # <<>>
    /\ modal.kickVotes > 0

\* C17: in every reachable state each card holds at most one Offline badge and
\* at most one Bot badge, and updatePlayerCardStatus with any status, and
\* updateBotBadge with any flag, applied a second time leave every card as the
\* first application left it.
C17_BadgesOnce ==
    \A m \in DOMAIN cards :
        /\ cards[m].statusBadges <= 1
        /\ cards[m].botBadges <= 1
        /\ \A status \in {"connected", "disconnected", "bot"} :
              LET once == updatePlayerCardStatus(Cur, m, status)
              IN  updatePlayerCardStatus(once, m, status).cards = once.cards
        /\ \A isBot \in BOOLEAN :
              LET once == updateBotBadge(Cur, m, isBot)
              IN  updateBotBadge(once, m, isBot).cards = once.cards

\* player_disconnected came again for a member whose countdown was running and
\* whose card carries a Bot badge: the card holds one badge of each kind
C17_Witness ==
    /\ lastCall.op = "player_disconnected"
    /\ lastCall.data.member_id \in lastCall.cleared
    /\ lastCall.data.member_id \in DOMAIN cards
    /\ cards[lastCall.data.member_id].statusBadges = 1
    /\ cards[lastCall.data.member_id].botBadges = 1

\* C18: a presence event naming a member without a card ends without an error
\* and leaves the cards alone, and its countdown part is done all the same:
\* player_disconnected (not for the local participant) creates the member's
\* entry with the event's deadline, player_connected and player_bot_controlled
\* leave the member without entry, timer and indicator, and
\* player_reconnected_from_bot changes nothing.
C18_MissingCardSkipped ==
    [][(/\ lastCall'.op \in {"player_disconnected", "player_connected",
                             "player_bot_controlled", "player_reconnected_from_bot"}
        /\ lastCall'.data.member_id \notin DOMAIN cards)
          => LET P == lastCall'.data.member_id
             IN  /\ ~lastCall'.threw
                 /\ cards' = cards
                 /\ (lastCall'.op = "player_disconnected" /\ P # currentMemberId)
                      => /\ P \in lastCall'.created
                         /\ P \in DOMAIN disconnectedPlayers'
                         /\ disconnectedPlayers'[P].deadline
                              = 1000 * lastCall'.data.deadline.sec
                                  + lastCall'.data.deadline.ms
                         /\ Cardinality(TimersOf(intervals', P)) = 1
                         /\ Cardinality(IndicatorsOf(body', P)) = 1
                 /\ lastCall'.op \in {"player_connected", "player_bot_controlled"}
                      => /\ P \notin DOMAIN disconnectedPlayers'
                         /\ P \in DOMAIN disconnectedPlayers => P \in lastCall'.cleared
                         /\ TimersOf(intervals', P) = {}
                         /\ IndicatorsOf(body', P) = {}
                 /\ lastCall'.op = "player_reconnected_from_bot"
                      => UNCHANGED HandlerVars
      ]_vars

\* player_bot_controlled ended the countdown of a member that has no card
C18_Witness ==
    /\ lastCall.op = "player_bot_controlled"
    /\ lastCall.data.member_id \notin DOMAIN cards
    /\ lastCall.data.member_id \in lastCall.cleared
    /\ now > 0

\* C19: once the ballot is out of the document, vote_kick_started, vote_updated,
\* vote_kick_completed, vote_kick_cancelled and castVote end without an error.
C19_NoErrorWithoutBallot ==
    (/\ ~modal.inDoc
     /\ lastCall.op \in {"vote_kick_started", "vote_updated", "vote_kick_completed",
                         "vote_kick_cancelled", "castVote"})
      => ~lastCall.threw

\* C20: a vote_kick_started event naming T, not the local participant, that
\* finds a session active leaves the session {T, hasVoted false}, whatever the
\* target of the earlier session and whether or not it had voted; a castVote
\* that follows sends one cast_vote message, on T.
C20_StartedReplacesSession ==
    [][/\ (/\ lastCall'.op = "vote_kick_started"
           /\ lastCall'.data.target_member_id # currentMemberId
           /\ activeVoteKick # <<>>)
             => /\ activeVoteKick' =
                      <<[targetId |-> lastCall'.data.target_member_id,
                         hasVoted |-> FALSE]>>
                /\ lastCall'.replaced = activeVoteKick
       /\ (/\ lastCall.op = "vote_kick_started"
           /\ lastCall.replaced # <<>>
           /\ lastCall'.op = "castVote")
             => /\ outbox' = <<[type |-> "cast_vote",
                               target_member_id |-> lastCall.data.target_member_id,
                               vote |-> lastCall'.data.vote]>>
                /\ activeVoteKick' =
                      <<[targetId |-> lastCall.data.target_member_id,
                         hasVoted |-> TRUE]>>
      ]_vars

\* a session on the last member took the place of a session on another member
\* in which the local participant had voted
C20_Witness ==
    /\ lastCall.op = "vote_kick_started"
    /\ lastCall.data.target_member_id = NumMembers + 1
    /\ lastCall.replaced # <<>>
    /\ lastCall.replaced[1].hasVoted
    /\ lastCall.replaced[1].targetId # NumMembers + 1
    /\ activeVoteKick = <<[targetId |-> NumMembers + 1, hasVoted |-> FALSE]>>
    /\ ~modal.hidden

\* the presence styling a card shows
Presence(card) == card.classes \cap StatusClasses

C22_PresenceAndBotApart ==
    \A m \in DOMAIN cards :
        /\ \A status \in {"connected", "disconnected", "bot"} :
              LET after == updatePlayerCardStatus(Cur, m, status).cards
              IN  /\ after[m].botBadges = cards[m].botBadges
                  /\ \A o \in DOMAIN cards \ {m} : after[o] = cards[o]
        /\ \A isBot \in BOOLEAN :
              LET after == updateBotBadge(Cur, m, isBot).cards
              IN  /\ after[m].classes = cards[m].classes
                  /\ after[m].statusBadges = cards[m].statusBadges
                  /\ \A o \in DOMAIN cards \ {m} : after[o] = cards[o]

\* a card shows the disconnected styling, its Offline badge and a Bot badge
C22_Witness ==
    \E m \in DOMAIN cards :
        /\ cards[m].statusBadges = 1
        /\ cards[m].botBadges = 1
        /\ Presence(cards[m]) = {"opacity-50", "border-2", "border-red-400"}
        /\ m \in DOMAIN disconnectedPlayers

\* the member a call is about
About(call) ==
    IF call.op \in {"vote_kick_started", "vote_kick_completed"}
    THEN call.data.target_member_id
    ELSE call.data.member_id

\* C23: an event, a tick or a clearDisconnectionCountdown call about member P
\* leaves every other member's entry (timer, deadline, element), scheduled
\* timer and indicator as they were, whether it starts, advances, ends or
\* clears P's countdown.
C23_CountdownsApart ==
    [][lastCall'.op \in {"player_disconnected", "player_connected",
                         "player_bot_controlled", "player_reconnected_from_bot",
                         "vote_kick_started", "vote_kick_completed",
                         "vote_kick_cancelled", "clearDisconnectionCountdown",
                         "interval"}
          => \A Q \in Members \ {About(lastCall')} :
                /\ (Q \in DOMAIN disconnectedPlayers) = (Q \in DOMAIN disconnectedPlayers')
                /\ Q \in DOMAIN disconnectedPlayers
                      => disconnectedPlayers'[Q] = disconnectedPlayers[Q]
                /\ TimersOf(intervals', Q) = TimersOf(intervals, Q)
                /\ IndicatorsOf(body', Q) = IndicatorsOf(body, Q)
      ]_vars

\* the tick of one member's countdown ended it while another member's
\* countdown was running
C23_Witness ==
    /\ lastCall.op = "interval"
    /\ lastCall.cleared = {lastCall.data.member_id}
    /\ disconnectedPlayers # EmptyMap
    /\ intervals # {}
    /\ body # {}

\* C24: an entry that a call created has a deadline later than the time of
\* the call.
C24_DeadlineAhead ==
    \A P \in lastCall.created :
        /\ P \in DOMAIN disconnectedPlayers
        /\ disconnectedPlayers[P].deadline > now

\* C25: in every reachable state the local participant has no entry, no timer
\* and no indicator.
C25_NoCountdownForSelf ==
    /\ currentMemberId \notin DOMAIN disconnectedPlayers
    /\ TimersOf(intervals, currentMemberId) = {}
    /\ IndicatorsOf(body, currentMemberId) = {}

\* the ballot is in the document and not hidden
BallotVisible == modal.inDoc /\ ~modal.hidden

\* C26: in every reachable state the ballot is visible exactly when a session
\* is active, and while one is active the vote buttons are shown exactly when
\* hasVoted is false and the waiting indicator exactly when it is true.
C26_BallotIffSession ==
    /\ BallotVisible <=> activeVoteKick # <<>>
    /\ activeVoteKick # <<>> =>
          /\ (BallotVisible /\ ~modal.buttonsHidden) <=> ~activeVoteKick[1].hasVoted
          /\ (BallotVisible /\ ~modal.waitingHidden) <=> activeVoteKick[1].hasVoted

\* C27: in every reachable state every member that has a card and a countdown
\* entry has the disconnected styling and the Offline badge on the card.
C27_CountdownMeansOffline ==
    \A P \in DOMAIN cards \cap DOMAIN disconnectedPlayers :
        /\ Presence(cards[P]) = {"opacity-50", "border-2", "border-red-400"}
        /\ cards[P].statusBadges = 1

====
